---- MODULE Spec2Model ----
(***************************************************************************)
(* Model of the Camera trait of kiss3d (src/src/camera/camera.rs): the     *)
(* default methods num_passes, start_pass, render_complete, project and    *)
(* unproject, over cameras given by the values of their abstract           *)
(* accessors.  f32 values are modelled as exact rationals <<n, d>> with    *)
(* d > 0 and gcd(n, d) = 1; floating-point rounding is not modelled.       *)
(***************************************************************************)
EXTENDS Integers, Sequences, FiniteSets, TLC

VARIABLES camera, canvas, call, result

vars == <<camera, canvas, call, result>>

(***************************************************************************)
(* Bounds of the model.                                                    *)
(***************************************************************************)
\* world y ranges over k/2 for k in -MaxY..MaxY
MaxY == 1
\* world z ranges over -MaxZ..MaxZ
MaxZ == 1
\* screen x ranges over 400*k for k in 0..MaxSx
MaxSx == 2
\* screen y ranges over 300*k for k in 0..MaxSy
MaxSy == 2
\* pass indices given to start_pass range over 0..MaxPass
MaxPass == 1

(***************************************************************************)
(* f32 arithmetic, as exact rational arithmetic.                           *)
(***************************************************************************)
RECURSIVE GCD(_, _)
GCD(a, b) == IF b = 0 THEN a ELSE GCD(b, a % b)

IAbs(n) == IF n < 0 THEN -n ELSE n

Rat(n, d) ==
    LET s == IF d < 0 THEN -1 ELSE 1
        g == GCD(IAbs(n), IAbs(d))
    IN  <<(s * n) \div g, (s * d) \div g>>

I(n) == <<n, 1>>
Zero == I(0)
One == I(1)
Two == I(2)

RAdd(a, b) == Rat(a[1] * b[2] + b[1] * a[2], a[2] * b[2])
RSub(a, b) == Rat(a[1] * b[2] - b[1] * a[2], a[2] * b[2])
RMul(a, b) == Rat(a[1] * b[1], a[2] * b[2])
RDiv(a, b) == Rat(a[1] * b[2], a[2] * b[1])
RNeg(a) == <<-a[1], a[2]>>
RAbs(a) == <<IAbs(a[1]), a[2]>>
RLt(a, b) == a[1] * b[2] < b[1] * a[2]

\* Matrix4<f32> * Vector4<f32>
RowDot(r, v) ==
    RAdd(RAdd(RMul(r[1], v[1]), RMul(r[2], v[2])),
         RAdd(RMul(r[3], v[3]), RMul(r[4], v[4])))

MatVec(M, v) ==
    <<RowDot(M[1], v), RowDot(M[2], v), RowDot(M[3], v), RowDot(M[4], v)>>

\* Point3 - Point3
VSub(a, b) == <<RSub(a[1], b[1]), RSub(a[2], b[2]), RSub(a[3], b[3])>>

Dot(a, b) ==
    RAdd(RAdd(RMul(a[1], b[1]), RMul(a[2], b[2])), RMul(a[3], b[3]))

RECURSIVE SqrtSearch(_, _, _)
SqrtSearch(n, lo, hi) ==
    IF lo >= hi THEN lo
    ELSE LET mid == (lo + hi + 1) \div 2
         IN  IF mid * mid <= n THEN SqrtSearch(n, mid, hi)
             ELSE SqrtSearch(n, lo, mid - 1)

\* floor of the square root of a natural number
ISqrt(n) == SqrtSearch(n, 0, IF n < 46340 THEN n ELSE 46340)

NaNVec == [v |-> <<Zero, Zero, Zero>>, irr |-> Zero, nan |-> TRUE]

(***************************************************************************)
(* Vector3::normalize: v / v.norm().  The unit vector v / sqrt(q) is kept  *)
(* as [v, irr]: the vector v / sqrt(irr), with irr = 1 whenever the norm   *)
(* is rational.  The zero vector has norm 0 and 0.0 / 0.0 is NaN.          *)
(***************************************************************************)
normalize(v) ==
    LET q == Dot(v, v)
        rn == ISqrt(q[1])
        rd == ISqrt(q[2])
    IN  IF q = Zero THEN NaNVec
        ELSE IF rn * rn = q[1] /\ rd * rd = q[2]
             THEN [v |-> <<RDiv(v[1], <<rn, rd>>), RDiv(v[2], <<rn, rd>>),
                           RDiv(v[3], <<rn, rd>>)>>,
                   irr |-> One, nan |-> FALSE]
             ELSE [v |-> v, irr |-> q, nan |-> FALSE]

\* Point3::to_homogeneous: append w = 1
to_homogeneous(p) == <<p[1], p[2], p[3], One>>

\* Point3::from_homogeneous: None when w is zero, else the first three
\* coordinates divided by w
from_homogeneous(h) ==
    IF h[4] = Zero THEN [some |-> FALSE, val |-> <<>>]
    ELSE [some |-> TRUE,
          val |-> <<RDiv(h[1], h[4]), RDiv(h[2], h[4]), RDiv(h[3], h[4])>>]

\* the literal 0.001
Threshold == Rat(1, 1000)

(***************************************************************************)
(* The abstract accessors of the trait: a camera is the record of the      *)
(* values they return.                                                     *)
(***************************************************************************)
eye(self) == self.eye
view_transform(self) == self.view_transform
transformation(self) == self.transformation
inverse_transformation(self) == self.inverse_transformation
clip_planes(self) == self.clip_planes

(***************************************************************************)
(* Default methods.                                                        *)
(***************************************************************************)
num_passes_two(self) == 2

num_passes(self) == 1

\* fn start_pass(&self, _pass, _canvas) {}: the camera and canvas after it
start_pass(self, pass, cv) == [camera |-> self, canvas |-> cv]

\* fn render_complete(&self, _canvas) {}
render_complete(self, cv) == [camera |-> self, canvas |-> cv]

\* the outcome of a call: a value returned, or a panic (unwrap of None)
Panic(x) == [status |-> "panic", value |-> x]
Ok(x) == [status |-> "ok", value |-> x]

\* the ray in place where no ray is returned
NoRay == [origin |-> <<>>, direction |-> [v |-> <<>>, irr |-> <<>>, nan |-> FALSE]]

\* let transform = self.transformation();
project_transform_wrong_accessor(self) == inverse_transformation(self)

project_transform(self) == transformation(self)

\* if h_normalized_coord[3].abs() < 0.001 {h_normalized_coord[3] = 1.0;}
project_clamp_missing(h) == h

project_clamp_le(h) ==
    IF ~RLt(Threshold, RAbs(h[4])) THEN <<h[1], h[2], h[3], One>> ELSE h

project_clamp(h) ==
    IF RLt(RAbs(h[4]), Threshold) THEN <<h[1], h[2], h[3], One>> ELSE h

\* Vector2::new((1.0 + n.x) * size.x / 2.0, (1.0 + n.y) * size.y / 2.0)
screen_coord_no_offset(n, size) ==
    <<RDiv(RMul(n[1], size[1]), Two), RDiv(RMul(n[2], size[2]), Two)>>

screen_coord(n, size) ==
    <<RDiv(RMul(RAdd(One, n[1]), size[1]), Two),
      RDiv(RMul(RAdd(One, n[2]), size[2]), Two)>>

project(self, world_coord, size) ==
    LET h_world_coord == to_homogeneous(world_coord)
        transform == project_transform(self)
        h_normalized_coord == project_clamp(MatVec(transform, h_world_coord))
        normalized_coord == from_homogeneous(h_normalized_coord)
    IN  IF ~normalized_coord.some THEN Panic(<<>>)
        ELSE Ok(screen_coord(normalized_coord.val, size))

\* Point2::new(2.0 * w.x / size.x - 1.0, 2.0 * -w.y / size.y + 1.0)
unproject_normalized_coord_x_unscaled(window_coord, size) ==
    <<RSub(RDiv(window_coord[1], size[1]), One),
      RAdd(RDiv(RMul(Two, RNeg(window_coord[2])), size[2]), One)>>

unproject_normalized_coord_no_flip(window_coord, size) ==
    <<RSub(RDiv(RMul(Two, window_coord[1]), size[1]), One),
      RSub(RDiv(RMul(Two, window_coord[2]), size[2]), One)>>

unproject_normalized_coord(window_coord, size) ==
    <<RSub(RDiv(RMul(Two, window_coord[1]), size[1]), One),
      RAdd(RDiv(RMul(Two, RNeg(window_coord[2])), size[2]), One)>>

\* Point4::new(normalized_coord.x, normalized_coord.y, -1.0, 1.0)
normalized_begin(n) == <<n[1], n[2], RNeg(One), One>>

\* Point4::new(normalized_coord.x, normalized_coord.y, 1.0, 1.0)
normalized_end_near_depth(n) == <<n[1], n[2], RNeg(One), One>>

normalized_end(n) == <<n[1], n[2], One, One>>

\* if h_unprojected_begin[3].abs() < 0.001 {h_unprojected_begin[3] = 1.0;}
unproject_clamp_begin(h) ==
    IF RLt(RAbs(h[4]), Threshold) THEN <<h[1], h[2], h[3], One>> ELSE h

\* if h_unprojected_end[3].abs() < 0.001 {h_unprojected_end[3] = 1.0;}
unproject_clamp_end_missing(h) == h

unproject_clamp_end(h) ==
    IF RLt(RAbs(h[4]), Threshold) THEN <<h[1], h[2], h[3], One>> ELSE h

unproject(self, window_coord, size) ==
    LET normalized_coord == unproject_normalized_coord(window_coord, size)
        cam == inverse_transformation(self)
        h_unprojected_begin ==
            unproject_clamp_begin(MatVec(cam, normalized_begin(normalized_coord)))
        h_unprojected_end ==
            unproject_clamp_end(MatVec(cam, normalized_end(normalized_coord)))
        unprojected_begin == from_homogeneous(h_unprojected_begin)
        unprojected_end == from_homogeneous(h_unprojected_end)
    IN  IF ~unprojected_begin.some \/ ~unprojected_end.some THEN Panic(NoRay)
        ELSE Ok([origin |-> unprojected_begin.val,
                 direction |->
                     normalize(VSub(unprojected_end.val, unprojected_begin.val))])

(***************************************************************************)
(* The cameras, world points, screen points and sizes of the model.        *)
(***************************************************************************)
\* an integer matrix divided by a common denominator
RowI(r, den) == <<Rat(r[1], den), Rat(r[2], den), Rat(r[3], den), Rat(r[4], den)>>

MatI(rows, den) ==
    <<RowI(rows[1], den), RowI(rows[2], den), RowI(rows[3], den), RowI(rows[4], den)>>

Identity == MatI(<<<<1,0,0,0>>, <<0,1,0,0>>, <<0,0,1,0>>, <<0,0,0,1>>>>, 1)
ZeroMat == MatI(<<<<0,0,0,0>>, <<0,0,0,0>>, <<0,0,0,0>>, <<0,0,0,0>>>>, 1)

\* perspective projection, znear = 1/2, zfar = 3/2, looking down -z
Persp == MatI(<<<<2,0,0,0>>, <<0,2,0,0>>, <<0,0,-4,-3>>, <<0,0,-2,0>>>>, 2)
PerspInv == MatI(<<<<3,0,0,0>>, <<0,3,0,0>>, <<0,0,0,-3>>, <<0,0,-2,4>>>>, 3)

\* w = 1/2000 for every point, and the inverse
TinyW == MatI(<<<<2000,0,0,0>>, <<0,2000,0,0>>, <<0,0,2000,0>>, <<0,0,0,1>>>>, 2000)
HugeW == MatI(<<<<1,0,0,0>>, <<0,1,0,0>>, <<0,0,1,0>>, <<0,0,0,2000>>>>, 1)

\* w = z / 1000: w is 0.001, 0 and -0.001 at z = 1, 0 and -1
EdgeW == MatI(<<<<1000,0,0,0>>, <<0,1000,0,0>>, <<0,0,0,1000>>, <<0,0,1,0>>>>, 1000)
EdgeWInv == MatI(<<<<1,0,0,0>>, <<0,1,0,0>>, <<0,0,0,1000>>, <<0,0,1,0>>>>, 1)

\* w = z + 1 resp. 1 - z: as inverse_transformation, w is 0 at one depth
\* extreme and 2 at the other
NearW0 == MatI(<<<<1,0,0,0>>, <<0,1,0,0>>, <<0,0,1,0>>, <<0,0,1,1>>>>, 1)
NearW0Inv == MatI(<<<<1,0,0,0>>, <<0,1,0,0>>, <<0,0,1,0>>, <<0,0,-1,1>>>>, 1)

\* invertible; as inverse_transformation it sends the screen centre's near
\* point to (0,0,1,0) and its far point to (0,0,2,2)
Collapse == MatI(<<<<2,0,0,0>>, <<0,2,0,0>>, <<0,0,1,3>>, <<0,0,2,2>>>>, 2)
CollapseInv == MatI(<<<<2,0,0,0>>, <<0,2,0,0>>, <<0,0,-2,3>>, <<0,0,2,-1>>>>, 2)

\* x sheared by 4y, an affine map
Shear == MatI(<<<<1,4,0,0>>, <<0,1,0,0>>, <<0,0,1,0>>, <<0,0,0,1>>>>, 1)
ShearInv == MatI(<<<<1,-4,0,0>>, <<0,1,0,0>>, <<0,0,1,0>>, <<0,0,0,1>>>>, 1)

\* <<transformation(), inverse_transformation()>> of the cameras: exact
\* inverses of each other, a singular pair, and two mismatched pairs
MatrixPairs ==
    { <<Identity, Identity>>, <<Persp, PerspInv>>, <<TinyW, HugeW>>,
      <<HugeW, TinyW>>, <<EdgeW, EdgeWInv>>,
      <<NearW0, NearW0Inv>>, <<NearW0Inv, NearW0>>,
      <<CollapseInv, Collapse>>, <<Shear, ShearInv>>, <<ZeroMat, ZeroMat>>,
      <<Identity, Persp>>, <<Persp, Identity>> }

\* eye(), view_transform() (its translation) and clip_planes()
Pose0 == [eye |-> <<Zero, Zero, Zero>>, view |-> <<Zero, Zero, Zero>>,
          clip |-> <<Rat(1, 2), Rat(3, 2)>>]
Pose1 == [eye |-> <<Zero, Zero, One>>, view |-> <<Zero, Zero, RNeg(One)>>,
          clip |-> <<One, I(3)>>]

Cam(m, p) ==
    [transformation |-> m[1], inverse_transformation |-> m[2],
     eye |-> p.eye, view_transform |-> p.view, clip_planes |-> p.clip]

Cameras ==
    { Cam(m, Pose0) : m \in MatrixPairs }
        \cup { Cam(<<Identity, Identity>>, Pose1), Cam(<<Persp, PerspInv>>, Pose1) }

Canvases == {[width |-> 800, height |-> 600]}

XCoords == { Zero, Rat(1, 2) }
YCoords == { Rat(k, 2) : k \in -MaxY..MaxY }
ZCoords == { I(k) : k \in -MaxZ..MaxZ }
WorldPoints == { <<x, y, z>> : x \in XCoords, y \in YCoords, z \in ZCoords }

ScreenPoints ==
    { <<I(400 * i), I(300 * j)>> : i \in 0..MaxSx, j \in 0..MaxSy }

Sizes == { <<I(800), I(600)>>, <<I(400), I(400)>> }

\* the last call: the method and its arguments (<<>> or 0 where it has none)
Call(op, world_coord, window_coord, size, pass) ==
    [op |-> op, world_coord |-> world_coord, window_coord |-> window_coord,
     size |-> size, pass |-> pass]

NoCall == Call("none", <<>>, <<>>, <<>>, 0)

\* what the last call returned: its status and, by return type, the usize,
\* the Vector2 or the (Point3, Vector3) it returned
Ret(status, passes, screen, ray) ==
    [status |-> status, passes |-> passes, screen |-> screen, ray |-> ray]

NoRet == Ret("ok", 0, <<>>, NoRay)

(***************************************************************************)
(* The state machine: one action per call of a default method.             *)
(***************************************************************************)
Init ==
    /\ camera \in Cameras
    /\ canvas \in Canvases
    /\ call = NoCall
    /\ result = NoRet

NumPasses ==
    /\ call' = Call("num_passes", <<>>, <<>>, <<>>, 0)
    /\ result' = Ret("ok", num_passes(camera), <<>>, NoRay)
    /\ UNCHANGED <<camera, canvas>>

StartPass ==
    \E pass \in 0..MaxPass :
        /\ call' = Call("start_pass", <<>>, <<>>, <<>>, pass)
        /\ camera' = start_pass(camera, pass, canvas).camera
        /\ canvas' = start_pass(camera, pass, canvas).canvas
        /\ result' = NoRet

RenderComplete ==
    /\ call' = Call("render_complete", <<>>, <<>>, <<>>, 0)
    /\ camera' = render_complete(camera, canvas).camera
    /\ canvas' = render_complete(camera, canvas).canvas
    /\ result' = NoRet

Project ==
    \E world_coord \in WorldPoints, size \in Sizes :
        /\ call' = Call("project", world_coord, <<>>, size, 0)
        /\ LET r == project(camera, world_coord, size)
           IN  result' = Ret(r.status, 0, r.value, NoRay)
        /\ UNCHANGED <<camera, canvas>>

Unproject ==
    \E window_coord \in ScreenPoints, size \in Sizes :
        /\ call' = Call("unproject", <<>>, window_coord, size, 0)
        /\ LET r == unproject(camera, window_coord, size)
           IN  result' = Ret(r.status, 0, <<>>, r.value)
        /\ UNCHANGED <<camera, canvas>>

Next ==
    \/ NumPasses
    \/ StartPass
    \/ RenderComplete
    \/ Project
    \/ Unproject

Spec == Init /\ [][Next]_vars

(***************************************************************************)
(* Vocabulary of the properties.                                           *)
(***************************************************************************)
\* column j of B
Col(B, j) == <<B[1][j], B[2][j], B[3][j], B[4][j]>>

MatMul(A, B) ==
    LET Row(i) == <<RowDot(A[i], Col(B, 1)), RowDot(A[i], Col(B, 2)),
                    RowDot(A[i], Col(B, 3)), RowDot(A[i], Col(B, 4))>>
    IN  <<Row(1), Row(2), Row(3), Row(4)>>

\* A and B are exact inverses of each other
IsInverse(A, B) == MatMul(A, B) = Identity /\ MatMul(B, A) = Identity

Det2(a, b, c, d) == RSub(RMul(a, d), RMul(b, c))

\* determinant of rows r1, r2, r3 restricted to columns c1, c2, c3 of M
Det3(M, r, c) ==
    RAdd(RSub(RMul(M[r[1]][c[1]],
                   Det2(M[r[2]][c[2]], M[r[2]][c[3]], M[r[3]][c[2]], M[r[3]][c[3]])),
              RMul(M[r[1]][c[2]],
                   Det2(M[r[2]][c[1]], M[r[2]][c[3]], M[r[3]][c[1]], M[r[3]][c[3]]))),
         RMul(M[r[1]][c[3]],
              Det2(M[r[2]][c[1]], M[r[2]][c[2]], M[r[3]][c[1]], M[r[3]][c[2]])))

Det4(M) ==
    RAdd(RSub(RMul(M[1][1], Det3(M, <<2, 3, 4>>, <<2, 3, 4>>)),
              RMul(M[1][2], Det3(M, <<2, 3, 4>>, <<1, 3, 4>>))),
         RSub(RMul(M[1][3], Det3(M, <<2, 3, 4>>, <<1, 2, 4>>)),
              RMul(M[1][4], Det3(M, <<2, 3, 4>>, <<1, 2, 3>>))))

Invertible(M) == Det4(M) # Zero

Cross(a, b) ==
    <<RSub(RMul(a[2], b[3]), RMul(a[3], b[2])),
      RSub(RMul(a[3], b[1]), RMul(a[1], b[3])),
      RSub(RMul(a[1], b[2]), RMul(a[2], b[1]))>>

ZeroVec3 == <<Zero, Zero, Zero>>

Parallel(a, b) == Cross(a, b) = ZeroVec3

\* 0.001, as the properties state it
Eps == Rat(1, 1000)

\* |w| < 0.001
NearZero(w) == RLt(RNeg(Eps), w) /\ RLt(w, Eps)

\* the homogeneous point h with w replaced by 1 when near zero, then divided
ClampDivide(h) ==
    IF NearZero(h[4]) THEN <<h[1], h[2], h[3]>>
    ELSE <<RDiv(h[1], h[4]), RDiv(h[2], h[4]), RDiv(h[3], h[4])>>

\* the recorded unit vector dir = dir.v / sqrt(dir.irr) is a positive
\* multiple of d
PositiveMultiple(dir, d) ==
    ~dir.nan /\ Parallel(dir.v, d) /\ RLt(Zero, Dot(dir.v, d))

\* the recorded direction has length 1
UnitVector(dir) == ~dir.nan /\ Dot(dir.v, dir.v) = dir.irr /\ RLt(Zero, dir.irr)

\* clip-space coordinates of the world point of the current project call
ClipCoord == MatVec(camera.transformation, to_homogeneous(call.world_coord))

\* device coordinates of the screen point of the current unproject call
Nx == RSub(RDiv(RMul(Two, call.window_coord[1]), call.size[1]), One)
Ny == RSub(One, RDiv(RMul(Two, call.window_coord[2]), call.size[2]))

\* the near and far points of the current unproject call, before the divide
HNear == MatVec(camera.inverse_transformation, <<Nx, Ny, RNeg(One), One>>)
HFar == MatVec(camera.inverse_transformation, <<Nx, Ny, One, One>>)

Size800x600 == <<I(800), I(600)>>

(***************************************************************************)
(* Properties of project.                                                  *)
(***************************************************************************)
\* the world point of the current project call lies strictly inside the view
\* frustum: w is not clamped and normalized x, y, z are strictly in (-1, 1)
InsideFrustum ==
    LET c == ClipCoord
        InOpen(a) == RLt(RNeg(One), RDiv(a, c[4])) /\ RLt(RDiv(a, c[4]), One)
    IN  ~NearZero(c[4]) /\ InOpen(c[1]) /\ InOpen(c[2]) /\ InOpen(c[3])

\* the ray unproject returns for the screen point project returned
RoundTripRay == unproject(camera, result.screen, call.size)

\* C1: for a camera whose inverse_transformation() is the exact inverse of
\* transformation() and a world point p strictly inside the view frustum, the
\* ray unproject(project(p, size), size) passes through p: p - origin is
\* parallel to direction.
C1RoundTrip ==
    (/\ call.op = "project"
     /\ IsInverse(camera.transformation, camera.inverse_transformation)
     /\ InsideFrustum)
    => /\ result.status = "ok"
       /\ RoundTripRay.status = "ok"
       /\ ~RoundTripRay.value.direction.nan
       /\ Parallel(VSub(call.world_coord, RoundTripRay.value.origin),
                   RoundTripRay.value.direction.v)

\* C2: when the clip-space w lies strictly in (-0.001, 0.001), project divides
\* by 1 instead: it does not panic and returns
\* ((1 + x) * size.x / 2, (1 + y) * size.y / 2) from the undivided clip x, y.
C2NearZeroW ==
    (call.op = "project" /\ NearZero(ClipCoord[4]))
    => /\ result.status = "ok"
       /\ result.screen =
            <<RDiv(RMul(RAdd(One, ClipCoord[1]), call.size[1]), Two),
              RDiv(RMul(RAdd(One, ClipCoord[2]), call.size[2]), Two)>>

\* project was called on a point whose clip-space w is exactly 0 and whose
\* clip-space x is not 0, and has returned
C2Witness ==
    /\ call.op = "project"
    /\ ClipCoord[4] = Zero
    /\ ClipCoord[1] # Zero
    /\ result.status = "ok"

\* C3: when |w| >= 0.001 (w = 0.001, w = -0.001 and negative w included),
\* project divides by w itself and returns
\* ((1 + x/w) * size.x / 2, (1 + y/w) * size.y / 2), without clipping: a
\* normalized coordinate outside [-1, 1] gives a screen coordinate outside
\* [0, size].
C3RegularW ==
    (call.op = "project" /\ ~NearZero(ClipCoord[4]))
    => LET nx == RDiv(ClipCoord[1], ClipCoord[4])
           ny == RDiv(ClipCoord[2], ClipCoord[4])
       IN  /\ result.status = "ok"
           /\ result.screen =
                <<RDiv(RMul(RAdd(One, nx), call.size[1]), Two),
                  RDiv(RMul(RAdd(One, ny), call.size[2]), Two)>>
           /\ RLt(One, nx) => RLt(call.size[1], result.screen[1])
           /\ RLt(nx, RNeg(One)) => RLt(result.screen[1], Zero)
           /\ RLt(One, ny) => RLt(call.size[2], result.screen[2])
           /\ RLt(ny, RNeg(One)) => RLt(result.screen[2], Zero)

\* project was called on a point whose clip-space w is exactly 0.001 and has
\* returned a screen x beyond the right edge of the screen
C3Witness ==
    /\ call.op = "project"
    /\ ClipCoord[4] = Eps
    /\ result.status = "ok"
    /\ RLt(call.size[1], result.screen[1])

\* C4: a world point whose clip-space x and y are both 0 is projected to
\* exactly size / 2; with the identity as transformation() and size
\* (800, 600) every point (0, 0, z) is projected to (400, 300).
C4Centre ==
    call.op = "project"
    => /\ (ClipCoord[1] = Zero /\ ClipCoord[2] = Zero)
            => /\ result.status = "ok"
               /\ result.screen = <<RDiv(call.size[1], Two), RDiv(call.size[2], Two)>>
       /\ (/\ camera.transformation = Identity
           /\ call.world_coord[1] = Zero
           /\ call.world_coord[2] = Zero
           /\ call.size = Size800x600)
            => /\ result.status = "ok"
               /\ result.screen = <<I(400), I(300)>>

\* project was called with the identity transformation and size (800, 600)
\* on a point of the z axis other than the origin, and returned (400, 300)
C4Witness ==
    /\ call.op = "project"
    /\ camera.transformation = Identity
    /\ call.world_coord[1] = Zero
    /\ call.world_coord[2] = Zero
    /\ call.world_coord[3] # Zero
    /\ call.size = Size800x600
    /\ result.status = "ok"
    /\ result.screen = <<I(400), I(300)>>

(***************************************************************************)
(* Properties of unproject.                                                *)
(***************************************************************************)
\* the near and far world points of the current unproject call
NearPoint == ClampDivide(HNear)
FarPoint == ClampDivide(HFar)

\* C5, as stated: unproject computes nx = 2*sx/width - 1 and
\* ny = -2*sy/height + 1, returns as origin the divided image of
\* (nx, ny, -1, 1) under inverse_transformation() and a direction that is a
\* positive multiple of (far - origin), far being the divided image of
\* (nx, ny, 1, 1); with the identity and size (800, 600), unproject((400, 300))
\* gives origin (0, 0, -1) and direction (0, 0, 1).
C5AsStated ==
    call.op = "unproject"
    => /\ result.status = "ok"
       /\ result.ray.origin = NearPoint
       /\ PositiveMultiple(result.ray.direction, VSub(FarPoint, NearPoint))
       /\ (/\ camera.inverse_transformation = Identity
           /\ call.size = Size800x600
           /\ call.window_coord = <<I(400), I(300)>>)
            => /\ result.ray.origin = <<Zero, Zero, RNeg(One)>>
               /\ result.ray.direction.v = <<Zero, Zero, One>>
               /\ result.ray.direction.irr = One

\* C5, amended: as stated, except that the direction is a positive multiple of
\* (far - origin) only when far differs from origin; when the two points
\* coincide the direction is NaN.
C5Unproject ==
    call.op = "unproject"
    => /\ result.status = "ok"
       /\ result.ray.origin = NearPoint
       /\ IF FarPoint = NearPoint THEN result.ray.direction.nan
          ELSE PositiveMultiple(result.ray.direction, VSub(FarPoint, NearPoint))
       /\ (/\ camera.inverse_transformation = Identity
           /\ call.size = Size800x600
           /\ call.window_coord = <<I(400), I(300)>>)
            => /\ result.ray.origin = <<Zero, Zero, RNeg(One)>>
               /\ result.ray.direction.v = <<Zero, Zero, One>>
               /\ result.ray.direction.irr = One

\* unproject was called on the centre of an 800 x 600 screen with the identity
\* as inverse_transformation() and returned the ray from (0, 0, -1) along
\* (0, 0, 1)
C5Witness ==
    /\ call.op = "unproject"
    /\ camera.inverse_transformation = Identity
    /\ call.size = Size800x600
    /\ call.window_coord = <<I(400), I(300)>>
    /\ result.ray.origin = <<Zero, Zero, RNeg(One)>>
    /\ result.ray.direction = [v |-> <<Zero, Zero, One>>, irr |-> One, nan |-> FALSE]

\* C7: in unproject the near-zero-w clamp is applied to the near and to the
\* far point independently (each is divided by 1 when its own |w| < 0.001 and
\* by its own w otherwise), and for every inverse_transformation(), singular
\* and all-zero ones included, neither unwrap panics.
C7IndependentClamp ==
    call.op = "unproject"
    => /\ result.status = "ok"
       /\ result.ray.origin =
            (IF NearZero(HNear[4]) THEN <<HNear[1], HNear[2], HNear[3]>>
             ELSE <<RDiv(HNear[1], HNear[4]), RDiv(HNear[2], HNear[4]),
                    RDiv(HNear[3], HNear[4])>>)
       /\ LET far == IF NearZero(HFar[4]) THEN <<HFar[1], HFar[2], HFar[3]>>
                     ELSE <<RDiv(HFar[1], HFar[4]), RDiv(HFar[2], HFar[4]),
                            RDiv(HFar[3], HFar[4])>>
              d == VSub(far, result.ray.origin)
          IN  IF d = ZeroVec3 THEN result.ray.direction.nan
              ELSE PositiveMultiple(result.ray.direction, d)

\* unproject has returned from a call in which the near point's w was 0 and
\* clamped while the far point's w was at least 0.001 and kept
C7Witness ==
    /\ call.op = "unproject"
    /\ HNear[4] = Zero
    /\ ~NearZero(HFar[4])
    /\ HFar[4] # One
    /\ result.status = "ok"
    /\ ~result.ray.direction.nan

\* C9, as stated: for every invertible inverse_transformation() the near and
\* far points unproject computes are distinct, so the returned direction is a
\* well-defined unit vector.
C9AsStated ==
    (call.op = "unproject" /\ Invertible(camera.inverse_transformation))
    => /\ result.status = "ok"
       /\ FarPoint # NearPoint
       /\ UnitVector(result.ray.direction)

\* C9, amended: for every invertible inverse_transformation() and every
\* screen point for which neither w clamp triggers, the near and far points
\* are distinct and the returned direction is a well-defined unit vector.
C9DistinctPoints ==
    (/\ call.op = "unproject"
     /\ Invertible(camera.inverse_transformation)
     /\ ~NearZero(HNear[4])
     /\ ~NearZero(HFar[4]))
    => /\ result.status = "ok"
       /\ FarPoint # NearPoint
       /\ UnitVector(result.ray.direction)

\* unproject has returned a unit direction from a call with an invertible
\* perspective inverse_transformation() (near and far w differ) in which
\* neither clamp triggered
C9Witness ==
    /\ call.op = "unproject"
    /\ Invertible(camera.inverse_transformation)
    /\ ~NearZero(HNear[4])
    /\ ~NearZero(HFar[4])
    /\ HNear[4] # HFar[4]
    /\ UnitVector(result.ray.direction)

\* the screen point project returns for the origin unproject returned
ProjectedOrigin == project(camera, result.ray.origin, call.size)

\* no w clamp triggers in the current unproject call nor in the projection
\* of its origin
NoClampEitherWay ==
    /\ ~NearZero(HNear[4])
    /\ ~NearZero(HFar[4])
    /\ ~NearZero(MatVec(camera.transformation, to_homogeneous(NearPoint))[4])

\* C10: for a camera whose transformation() and inverse_transformation() are
\* exact mutual inverses and a screen point (sx, sy) for which no w clamp
\* triggers in either call, project(unproject(s, size).origin, size) is
\* (sx, size.y - sy): it equals s only where sy = size.y / 2.
C10MirroredY ==
    (/\ call.op = "unproject"
     /\ IsInverse(camera.transformation, camera.inverse_transformation)
     /\ NoClampEitherWay)
    => /\ result.status = "ok"
       /\ ProjectedOrigin.status = "ok"
       /\ ProjectedOrigin.value =
            <<call.window_coord[1], RSub(call.size[2], call.window_coord[2])>>
       /\ (ProjectedOrigin.value = call.window_coord)
            <=> (call.window_coord[2] = RDiv(call.size[2], Two))

\* unproject has returned from a call on a screen point off the horizontal
\* centre line, with exact inverses and no clamp, and projecting its origin
\* gives the mirrored point
C10Witness ==
    /\ call.op = "unproject"
    /\ IsInverse(camera.transformation, camera.inverse_transformation)
    /\ NoClampEitherWay
    /\ camera.transformation # Identity
    /\ call.window_coord[2] # RDiv(call.size[2], Two)
    /\ ProjectedOrigin.value =
         <<call.window_coord[1], RSub(call.size[2], call.window_coord[2])>>

(***************************************************************************)
(* Properties of the default hooks and of the use of the accessors.        *)
(***************************************************************************)
\* C6: num_passes() returns 1, and start_pass and render_complete leave the
\* camera (eye, view transform, transformation, inverse transformation, clip
\* planes) and the canvas unchanged, for every pass index, in every step of
\* every behaviour.
C6Defaults ==
    [][/\ call'.op = "num_passes" => result'.passes = 1
       /\ call'.op \in {"num_passes", "start_pass", "render_complete"}
            => camera' = camera /\ canvas' = canvas]_vars

\* start_pass has returned from a call with a pass index other than 0, on a
\* camera of the model
C6Witness ==
    /\ call.op = "start_pass"
    /\ call.pass > 0
    /\ camera \in Cameras
    /\ canvas \in Canvases

\* C8: project reads only transformation() and unproject only
\* inverse_transformation(): a camera that agrees with the current one on
\* that accessor returns the same result for the same arguments, whatever
\* its other accessors return; and neither call changes the camera.
C8AccessorsOnly ==
    [][/\ call'.op = "project"
            => /\ camera' = camera
               /\ \A other \in Cameras :
                    other.transformation = camera.transformation
                    => LET r == project(other, call'.world_coord, call'.size)
                       IN  r.status = result'.status /\ r.value = result'.screen
       /\ call'.op = "unproject"
            => /\ camera' = camera
               /\ \A other \in Cameras :
                    other.inverse_transformation = camera.inverse_transformation
                    => LET r == unproject(other, call'.window_coord, call'.size)
                       IN  r.status = result'.status /\ r.value = result'.ray]_vars

\* project has returned on a camera for which another camera has the same
\* transformation() but a different inverse_transformation(), eye,
\* view_transform and clip_planes
C8Witness ==
    /\ call.op = "project"
    /\ result.status = "ok"
    /\ \E other \in Cameras :
         /\ other.transformation = camera.transformation
         /\ other.inverse_transformation # camera.inverse_transformation
         /\ other.eye # camera.eye
         /\ other.view_transform # camera.view_transform
         /\ other.clip_planes # camera.clip_planes

====
